---- MODULE Spec2Model ----
(***************************************************************************)
(* Clash of Commands (src/game.py): the Game engine as a state machine.    *)
(* State: each player's deck / hand / discard, cp and morale, the six      *)
(* zones' unit sequences, the turn counter and the active player id.       *)
(* Operations: _draw, start_phase, deploy_troop_from_hand, the end-of-turn *)
(* swap of play_one_turn, and game_over; then the loop of main and         *)
(* play_one_turn, which drives them from the players' typed input.         *)
(***************************************************************************)
EXTENDS Integers, Sequences, FiniteSets, TLC

VARIABLES deck, hand, discard, cp, morale, zones, turn, active_pid, last, ends, steps, pc

vars == <<deck, hand, discard, cp, morale, zones, turn, active_pid, last, ends, steps, pc>>

\* The game state proper (everything but the call record and the counters
\* that only observe the run).
game == <<deck, hand, discard, cp, morale, zones, turn, active_pid>>

-----------------------------------------------------------------------------
\* Bounds of the model.

\* Number of engine calls explored from a new Game, in any order.
MaxSteps == 3

\* Runs made only of successful deploys into one zone are explored further, up
\* to this many calls: enough to fill the largest zone and be refused once.
MaxFill == 5

\* The large n of a direct _draw(p, n) call (the small one is 1): the whole
\* deck left after the deal.
BigDraw == 25

\* Discards of at most this length are reshuffled into every permutation;
\* longer sequences into the orders of BigShuffle.
MaxPermLen == 3

\* Morale values tried for the win check range over -MaxMorale..MaxMorale.
MaxMorale == 2

\* Turns played through the loop of main (each 'end' ends one).
MaxEnds == 52

\* Requests other than 'end' typed in one play of the loop of main.
MaxRequests == 2

\* Plays made only of successful deploys go on to this many requests: enough
\* to fill HQ and RESERVE and be refused once.
MaxBoard == 7

\* Units per player on the boards start_phase is tried on.
MaxAttackers == 2

-----------------------------------------------------------------------------
\* Core enums and card data.

PlayerIds == {1, 2}

ZoneId == {"LEFT", "CENTER", "RIGHT", "RESERVE", "HQ", "SUPPLY"}

\* Mutant: HQ built with capacity 3.
capacity_HQ3 ==
    [z \in ZoneId |->
        CASE z = "RESERVE" -> 4
          [] z = "SUPPLY" -> 2
          [] OTHER -> 3]

\* Zone capacities set by Game.__init__.
capacity ==
    [z \in ZoneId |->
        CASE z = "LEFT" -> 3
          [] z = "CENTER" -> 3
          [] z = "RIGHT" -> 3
          [] z = "RESERVE" -> 4
          [] z = "HQ" -> 2
          [] z = "SUPPLY" -> 2]

TroopIds == {"troop_marines", "troop_scouts", "troop_cavalry", "troop_heavy", "troop_elite"}

StrategemIds == {"strat_suppression", "strat_march", "strat_dig_in"}

AmbushIds == {"amb_killzone", "amb_booby"}

CardIds == TroopIds \cup StrategemIds \cup AmbushIds

\* TroopStats of the five sample troops.
stats ==
    [c \in TroopIds |->
        CASE c = "troop_marines" -> [str |-> 6, arm |-> 4, coh |-> 6, speed |-> 1, max_ammo |-> 0]
          [] c = "troop_scouts" -> [str |-> 4, arm |-> 2, coh |-> 4, speed |-> 1, max_ammo |-> 2]
          [] c = "troop_cavalry" -> [str |-> 5, arm |-> 3, coh |-> 5, speed |-> 2, max_ammo |-> 0]
          [] c = "troop_heavy" -> [str |-> 7, arm |-> 2, coh |-> 4, speed |-> 1, max_ammo |-> 2]
          [] c = "troop_elite" -> [str |-> 7, arm |-> 4, coh |-> 6, speed |-> 1, max_ammo |-> 0]]

\* isinstance(card, TroopCard)
is_troop(c) == c \in TroopIds

base_deck ==
    << "troop_marines", "troop_marines",
       "troop_scouts", "troop_scouts",
       "troop_cavalry", "troop_cavalry",
       "troop_heavy", "troop_heavy",
       "troop_elite", "troop_elite",
       "strat_suppression", "strat_march", "strat_dig_in",
       "amb_killzone", "amb_booby" >>

\* base_deck[:] * 2
full_deck == base_deck \o base_deck

StartingHand == 5

CpGain == 2

CpMax == 5

StartMorale == 25

-----------------------------------------------------------------------------
\* Sequence helpers.

Reverse(s) == [i \in 1..Len(s) |-> s[Len(s) + 1 - i]]

\* How many entries of the sequence s are the card c.
CountOf(s, c) == Cardinality({i \in 1..Len(s) : s[i] = c})

\* Mutant: hand.pop(0) instead of hand.pop(hand_index).
PopAt_First(s, i) == Tail(s)

\* Mutant: hand.pop() instead of hand.pop(hand_index).
PopAt_Last(s, i) == SubSeq(s, 1, Len(s) - 1)

\* list.pop(i), 0-based i: the list without entry i.
PopAt(s, i) == SubSeq(s, 1, i) \o SubSeq(s, i + 2, Len(s))

\* list.pop(): the list without its last entry.
PopLast(s) == SubSeq(s, 1, Len(s) - 1)

TopOf(s) == s[Len(s)]

\* random.shuffle of a long list: a few of its orders.
BigShuffle(s) == {s, Reverse(s)}

\* random.shuffle: any order of the list (bounded, see MaxPermLen).
Shuffle(s) ==
    IF Len(s) <= MaxPermLen
    THEN {[i \in 1..Len(s) |-> s[f[i]]] : f \in Permutations(1..Len(s))}
    ELSE BigShuffle(s)

-----------------------------------------------------------------------------
\* _draw on one player's piles p = [deck, hand, discard].

\* Mutant: the discard is copied into the deck but not cleared.
Reshuffled_KeepDiscard(p) ==
    IF p.deck = <<>>
    THEN {[deck |-> d, hand |-> p.hand, discard |-> p.discard] : d \in Shuffle(p.discard)}
    ELSE {p}

\* The reshuffle of lines 248-252: only when the deck is empty.
Reshuffled(p) ==
    IF p.deck = <<>>
    THEN {[deck |-> d, hand |-> p.hand, discard |-> <<>>] : d \in Shuffle(p.discard)}
    ELSE {p}

\* Mutant: deck.pop(0), the bottom card, instead of deck.pop().
TakeTop_Bottom(p) ==
    IF p.deck # <<>>
    THEN [deck |-> Tail(p.deck), hand |-> Append(p.hand, Head(p.deck)), discard |-> p.discard]
    ELSE p

\* Lines 253-254: move the top of the deck to the end of the hand.
TakeTop(p) ==
    IF p.deck # <<>>
    THEN [deck |-> PopLast(p.deck), hand |-> Append(p.hand, TopOf(p.deck)), discard |-> p.discard]
    ELSE p

\* Mutant: an empty deck is never refilled from the discard.
DrawOne_NoReshuffle(p) == {TakeTop(p)}

\* One iteration of the loop of _draw.
DrawOne(p) == {TakeTop(r) : r \in Reshuffled(p)}

RECURSIVE DrawN(_, _)
\* Mutant: range(n - 1), one iteration short.
DrawN_OneShort(p, n) == IF n <= 1 THEN {p} ELSE UNION {DrawN(r, n - 1) : r \in DrawOne(p)}

\* _draw(p, n): the set of outcomes over the shuffles.
DrawN(p, n) == IF n = 0 THEN {p} ELSE UNION {DrawN(r, n - 1) : r \in DrawOne(p)}

Piles(pid) == [deck |-> deck[pid], hand |-> hand[pid], discard |-> discard[pid]]

-----------------------------------------------------------------------------
\* Helpers of Game.

other_pid(pid) == IF pid = 1 THEN 2 ELSE 1

\* Mutant: <= for <.
has_space_Inclusive(zid) == Len(zones[zid]) <= capacity[zid]

\* Zone.has_space
has_space(zid) == Len(zones[zid]) < capacity[zid]

\* Mutant: no clamp.
gain_Unclamped(c) == c + CpGain

\* The cp update of start_phase: min(5, p.cp + 2).
gain(c) == IF c + CpGain < CpMax THEN c + CpGain ELSE CpMax

\* The bounds check of deploy_troop_from_hand (line 304), negated.
in_hand(pid, hand_index) == ~(hand_index < 0 \/ hand_index >= Len(hand[pid]))

\* p.hand[hand_index], 0-based.
card_at(pid, hand_index) == hand[pid][hand_index + 1]

\* Mutant: coh is taken from the card's str.
new_unit_StrAsCoh(card, pid, target_zone) ==
    [card |-> card,
     owner |-> pid,
     zone |-> target_zone,
     coh |-> stats[card].str,
     ammo |-> stats[card].max_ammo,
     attacked_this_turn |-> FALSE]

\* Mutant: the unit starts without ammunition.
new_unit_NoAmmo(card, pid, target_zone) ==
    [card |-> card,
     owner |-> pid,
     zone |-> target_zone,
     coh |-> stats[card].coh,
     ammo |-> 0,
     attacked_this_turn |-> FALSE]

\* The Unit built by deploy_troop_from_hand (lines 313-319).
new_unit(card, pid, target_zone) ==
    [card |-> card,
     owner |-> pid,
     zone |-> target_zone,
     coh |-> stats[card].coh,
     ammo |-> stats[card].max_ammo,
     attacked_this_turn |-> FALSE]

\* Mutant: the zone's list is rebuilt from the player's own units.
reset_attacks_OwnOnly(units, pid) ==
    SelectSeq([i \in 1..Len(units) |-> [units[i] EXCEPT !.attacked_this_turn = FALSE]],
              LAMBDA u : u.owner = pid)

\* Mutant: the owner test is left out.
reset_attacks_All(units, pid) ==
    [i \in 1..Len(units) |-> [units[i] EXCEPT !.attacked_this_turn = FALSE]]

\* The loop of start_phase over the units of one zone (lines 298-301).
reset_attacks(units, pid) ==
    [i \in 1..Len(units) |->
        IF units[i].owner = pid
        THEN [units[i] EXCEPT !.attacked_this_turn = FALSE]
        ELSE units[i]]

\* Mutant: player 2's morale is checked first.
game_over_P2First ==
    IF morale[2] <= 0 THEN 1
    ELSE IF morale[1] <= 0 THEN 2
    ELSE 0

\* Mutant: the comparisons are turned round (> 0 for <= 0).
game_over_Inverted ==
    IF morale[1] > 0 THEN 2
    ELSE IF morale[2] > 0 THEN 1
    ELSE 0

\* Mutant: < 0 for <= 0.
game_over_Strict ==
    IF morale[1] < 0 THEN 2
    ELSE IF morale[2] < 0 THEN 1
    ELSE 0

\* game_over: the winner, 0 for None.
game_over ==
    IF morale[1] <= 0 THEN 2
    ELSE IF morale[2] <= 0 THEN 1
    ELSE 0

\* Mutant: the turn counter counts every end of turn.
next_turn_Always(t, new_active) == t + 1

\* The turn counter after the swap (lines 355-356).
next_turn(t, new_active) == IF new_active = 1 THEN t + 1 ELSE t

\* The record of the last call made on the engine: the operation, the return
\* statement it left by, and what it returned (ok: deploy's bool; winner:
\* game_over's player id, 0 for None).
Call(op, exit, ok, winner) == [op |-> op, exit |-> exit, ok |-> ok, winner |-> winner]

-----------------------------------------------------------------------------
\* Construction.

\* Game.__init__: shuffled decks, starting hands, empty zones.
NewGame ==
    /\ \E d1 \in Shuffle(full_deck), d2 \in Shuffle(full_deck) :
         \E r1 \in DrawN([deck |-> d1, hand |-> <<>>, discard |-> <<>>], StartingHand),
            r2 \in DrawN([deck |-> d2, hand |-> <<>>, discard |-> <<>>], StartingHand) :
              /\ deck = <<r1.deck, r2.deck>>
              /\ hand = <<r1.hand, r2.hand>>
              /\ discard = <<r1.discard, r2.discard>>
    /\ cp = <<0, 0>>
    /\ zones = [z \in ZoneId |-> <<>>]
    /\ turn = 1
    /\ active_pid = 1
    /\ last = Call("new", "done", TRUE, 0)
    /\ ends = 0
    /\ steps = 0

\* A new Game whose methods are called directly (main is not running).
Init ==
    /\ NewGame
    /\ morale = <<StartMorale, StartMorale>>
    /\ pc = "api"

-----------------------------------------------------------------------------
\* Operations.

\* The calls explored (see MaxSteps, MaxFill).
MayCall == steps < MaxSteps

MayDeploy(target_zone) ==
    \/ MayCall
    \/ steps < MaxFill /\ Len(zones[target_zone]) = steps

\* _draw(p, n) called directly.
Draw(pid, n) ==
    /\ MayCall
    /\ \E r \in DrawN(Piles(pid), n) :
         /\ deck' = [deck EXCEPT ![pid] = r.deck]
         /\ hand' = [hand EXCEPT ![pid] = r.hand]
         /\ discard' = [discard EXCEPT ![pid] = r.discard]
    /\ last' = Call("draw", "done", TRUE, 0)
    /\ steps' = steps + 1
    /\ UNCHANGED <<cp, morale, zones, turn, active_pid, ends, pc>>

\* The body of start_phase(p): what it does to the game state.
start_phase(pid) ==
    /\ cp' = [cp EXCEPT ![pid] = gain(cp[pid])]
    /\ \E r \in DrawN(Piles(pid), 1) :
         /\ deck' = [deck EXCEPT ![pid] = r.deck]
         /\ hand' = [hand EXCEPT ![pid] = r.hand]
         /\ discard' = [discard EXCEPT ![pid] = r.discard]
    /\ zones' = [z \in ZoneId |-> reset_attacks(zones[z], pid)]
    /\ last' = Call("start_phase", "done", TRUE, 0)
    /\ UNCHANGED <<morale, turn, active_pid>>

\* start_phase(p) called directly.
StartPhase(pid) ==
    /\ MayCall
    /\ start_phase(pid)
    /\ steps' = steps + 1
    /\ UNCHANGED <<ends, pc>>

\* The return statement deploy_troop_from_hand leaves by: line 305 ("index"),
\* 308 ("kind"), 311 ("space") or 323 ("done").
deploy_exit(pid, hand_index, target_zone) ==
    IF ~in_hand(pid, hand_index) THEN "index"
    ELSE IF ~is_troop(card_at(pid, hand_index)) THEN "kind"
    ELSE IF ~has_space(target_zone) THEN "space"
    ELSE "done"

\* The body of deploy_troop_from_hand(p, hand_index, target_zone).
deploy_troop_from_hand(pid, hand_index, target_zone) ==
    /\ LET exit == deploy_exit(pid, hand_index, target_zone) IN
       /\ last' = Call("deploy", exit, exit = "done", 0)
       /\ IF exit = "done"
          THEN LET card == card_at(pid, hand_index) IN
               /\ zones' = [zones EXCEPT ![target_zone] = Append(@, new_unit(card, pid, target_zone))]
               /\ discard' = [discard EXCEPT ![pid] = Append(@, card)]
               /\ hand' = [hand EXCEPT ![pid] = PopAt(@, hand_index)]
          ELSE UNCHANGED <<zones, discard, hand>>
    /\ UNCHANGED <<deck, cp, morale, turn, active_pid>>

\* deploy_troop_from_hand(p, hand_index, target_zone) called directly.
Deploy(pid, hand_index, target_zone) ==
    /\ MayDeploy(target_zone)
    /\ steps' = steps + 1
    /\ deploy_troop_from_hand(pid, hand_index, target_zone)
    /\ UNCHANGED <<ends, pc>>

\* The end of play_one_turn (lines 353-356): swap player, count the turn.
swap_player ==
    /\ active_pid' = other_pid(active_pid)
    /\ turn' = next_turn(turn, active_pid')
    /\ ends' = ends + 1
    /\ UNCHANGED <<deck, hand, discard, cp, morale, zones>>

\* The end of a turn on its own.
EndTurn ==
    /\ MayCall
    /\ swap_player
    /\ last' = Call("end_turn", "done", TRUE, 0)
    /\ steps' = steps + 1
    /\ UNCHANGED pc

\* game_over(), as main calls it.
GameOver ==
    /\ MayCall
    /\ last' = Call("game_over", "done", TRUE, game_over)
    /\ steps' = steps + 1
    /\ UNCHANGED <<deck, hand, discard, cp, morale, zones, turn, active_pid, ends, pc>>

\* Inputs tried.
HandIndexes == (-1..1) \cup {StartingHand}

DrawCounts == {1, BigDraw}

Next ==
    \/ \E pid \in PlayerIds, n \in DrawCounts : Draw(pid, n)
    \/ \E pid \in PlayerIds : StartPhase(pid)
    \/ \E pid \in PlayerIds, i \in HandIndexes, z \in ZoneId : Deploy(pid, i, z)
    \/ EndTurn
    \/ GameOver

Spec == Init /\ [][Next]_vars

-----------------------------------------------------------------------------
\* The win check on its own: a Game whose morales were set to any values.

InitWin ==
    /\ NewGame
    /\ morale \in {<<m1, m2>> : m1 \in -MaxMorale..MaxMorale, m2 \in -MaxMorale..MaxMorale}
    /\ pc = "api"

NextWin == GameOver

SpecWin == InitWin /\ [][NextWin]_vars

-----------------------------------------------------------------------------
\* The loop of main and play_one_turn, driven by the text typed at the prompts.
\* pc is main's position: "check" (top of the loop of main, before game_over),
\* "start" (play_one_turn entered, before start_phase), "input" (the prompt of
\* the MAIN loop), "over" (main has left its loop by the break of line 374),
\* "error" (int(idx) raised ValueError, which nothing catches).
\* Here steps counts the requests typed other than 'end', and ends the turns.

\* Typed text is a sequence of characters.
Digits == {"0", "1", "2"}

\* Characters str.isdigit accepts: the decimal digits and the superscripts.
IsDigitChars == Digits \cup {"^2"}

DigitValue == [c \in Digits |-> CASE c = "0" -> 0 [] c = "1" -> 1 [] c = "2" -> 2]

\* idx.isdigit(): non-empty and every character a digit.
isdigit(idx) == idx # <<>> /\ \A k \in 1..Len(idx) : idx[k] \in IsDigitChars

\* Whether int(idx) accepts the text (it raises ValueError on a superscript).
int_accepts(idx) == idx # <<>> /\ \A k \in 1..Len(idx) : idx[k] \in Digits

RECURSIVE int(_)
\* int(idx) of a text of decimal digits.
int(idx) ==
    IF idx = <<>> THEN 0
    ELSE 10 * int(SubSeq(idx, 1, Len(idx) - 1)) + DigitValue[idx[Len(idx)]]

\* The texts typed at "Which hand number?" (after strip()).
TypedNumbers ==
    { <<>>, <<"x">>, <<"-", "1">>, <<"^2">>,
      <<"0">>, <<"1">>, <<"2">>, <<"1", "0">> }

\* The texts typed at "Zone (HQ or RESERVE):" (after strip()).
TypedZones == {"HQ", "hq", "RESERVE", "LEFT", "SUPPLY", "BASE"}

\* str.upper() on the zone texts tried.
upper(z) ==
    CASE z = "hq" -> "HQ"
      [] OTHER -> z

\* The texts typed at the first prompt (after strip()).
TypedChoices == {"end", "END", "d", "deploy"}

\* str.lower() on the choices tried.
lower(choice) ==
    CASE choice = "END" -> "end"
      [] OTHER -> choice

\* Mutant: any zone name is let through to the engine.
allowed_zone_Any(z) == z \in ZoneId

\* The zones the loop lets a deploy go to (line 345).
allowed_zone(z) == z \in {"HQ", "RESERVE"}

NumUnits == Len(zones["LEFT"]) + Len(zones["CENTER"]) + Len(zones["RIGHT"])
            + Len(zones["RESERVE"]) + Len(zones["HQ"]) + Len(zones["SUPPLY"])

\* The requests explored: MaxRequests of them in a play, and further ones, up
\* to MaxBoard, in the plays made only of successful deploys in the opening
\* turn of each player.
MayAsk ==
    \/ steps < MaxRequests
    \/ steps < MaxBoard /\ NumUnits = steps /\ ends < Cardinality(PlayerIds)

\* The turns explored: the plays of at most MaxRequests requests go on.
MayEnd == ends < MaxEnds /\ steps <= MaxRequests

\* Mutant: the turn is played before the win check is looked at.
after_check_Play(winner) == "start"

\* Lines 371-375: main leaves its loop if there is a winner, else plays a turn.
after_check(winner) == IF winner # 0 THEN "over" ELSE "start"

\* The top of the loop of main: winner = g.game_over().
MainCheck ==
    /\ pc = "check"
    /\ last' = Call("game_over", "done", TRUE, game_over)
    /\ pc' = after_check(game_over)
    /\ UNCHANGED <<deck, hand, discard, cp, morale, zones, turn, active_pid, ends, steps>>

\* play_one_turn up to its prompt: start_phase of the active player.
TurnStart ==
    /\ pc = "start"
    /\ start_phase(active_pid)
    /\ pc' = "input"
    /\ UNCHANGED <<ends, steps>>

\* Mutant: whatever is not 'd' ends the turn.
is_end_NotD(choice) == lower(choice) # "d"

\* Line 337: choice == "end", after strip().lower().
is_end(choice) == lower(choice) = "end"

\* 'end' typed: the loop breaks and the players are swapped (lines 337-356).
\* The record keeps the text typed.
TypeEnd(choice) ==
    /\ pc = "input"
    /\ is_end(choice)
    /\ MayEnd
    /\ swap_player
    /\ last' = Call("end_turn", choice, TRUE, 0)
    /\ pc' = "check"
    /\ UNCHANGED steps

\* A request the loop turns down itself: the record of it, nothing else.
rejected(why) ==
    /\ last' = Call("input", why, FALSE, 0)
    /\ UNCHANGED <<deck, hand, discard, cp, morale, zones, turn, active_pid>>

\* 'd' typed, then a hand number and a zone (lines 339-351).
TypeDeploy(choice, idx, z) ==
    /\ pc = "input"
    /\ lower(choice) = "d"
    /\ MayAsk
    /\ steps' = steps + 1
    /\ UNCHANGED ends
    /\ IF ~isdigit(idx)
       THEN rejected("number") /\ pc' = pc
       ELSE IF ~allowed_zone(upper(z))
       THEN rejected("zone") /\ pc' = pc
       ELSE IF ~int_accepts(idx)
       THEN rejected("ValueError") /\ pc' = "error"
       ELSE deploy_troop_from_hand(active_pid, int(idx) - 1, upper(z)) /\ pc' = pc

\* Anything else typed at the first prompt: the loop asks again.
TypeOther(choice) ==
    /\ pc = "input"
    /\ ~is_end(choice)
    /\ lower(choice) # "d"
    /\ MayAsk
    /\ steps' = steps + 1
    /\ rejected("choice")
    /\ UNCHANGED <<ends, pc>>

NextMain ==
    \/ MainCheck
    \/ TurnStart
    \/ \E choice \in TypedChoices : TypeEnd(choice)
    \/ \E choice \in TypedChoices, idx \in TypedNumbers, z \in TypedZones : TypeDeploy(choice, idx, z)
    \/ \E choice \in TypedChoices : TypeOther(choice)

\* main() on a new Game.
InitMain ==
    /\ NewGame
    /\ morale = <<StartMorale, StartMorale>>
    /\ pc = "check"

SpecMain == InitMain /\ [][NextMain]_vars

\* main() on a Game whose morales were set to any values, with players who
\* end every turn at once.
InitMatch ==
    /\ NewGame
    /\ morale \in {<<m1, m2>> : m1 \in -MaxMorale..MaxMorale, m2 \in -MaxMorale..MaxMorale}
    /\ pc = "check"

NextMatch ==
    \/ MainCheck
    \/ TurnStart
    \/ \E choice \in TypedChoices : TypeEnd(choice)

SpecMatch == InitMatch /\ [][NextMatch]_vars

-----------------------------------------------------------------------------
\* start_phase on its own, on boards whose units carry any attacked_this_turn
\* flags: each player has deployed the first k cards of the starting hand into
\* RESERVE, and the flags of the units are an input (Unit.attacked_this_turn is
\* a plain field; start_phase is the code that reads and resets it).

\* One player's piles as Game.__init__ leaves them.
dealt ==
    UNION {DrawN([deck |-> d, hand |-> <<>>, discard |-> <<>>], StartingHand) : d \in Shuffle(full_deck)}

\* The first k cards of the hand are Troops.
troops_first(p, k) == \A i \in 1..k : is_troop(p.hand[i])

\* The units of the first k cards of p's hand, with the attacked flags f.
units_of(p, pid, k, f) ==
    [i \in 1..k |-> [new_unit(p.hand[i], pid, "RESERVE") EXCEPT !.attacked_this_turn = f[i]]]

InitPhase ==
    /\ \E r1 \in dealt, r2 \in dealt, k1 \in 0..MaxAttackers, k2 \in 0..MaxAttackers :
         /\ k1 + k2 <= capacity["RESERVE"]
         /\ troops_first(r1, k1)
         /\ troops_first(r2, k2)
         /\ \E f1 \in [1..k1 -> BOOLEAN], f2 \in [1..k2 -> BOOLEAN] :
              zones = [z \in ZoneId |->
                         IF z = "RESERVE"
                         THEN units_of(r1, 1, k1, f1) \o units_of(r2, 2, k2, f2)
                         ELSE <<>>]
         /\ deck = <<r1.deck, r2.deck>>
         /\ hand = <<SubSeq(r1.hand, k1 + 1, Len(r1.hand)), SubSeq(r2.hand, k2 + 1, Len(r2.hand))>>
         /\ discard = <<SubSeq(r1.hand, 1, k1), SubSeq(r2.hand, 1, k2)>>
    /\ cp = <<0, 0>>
    /\ morale = <<StartMorale, StartMorale>>
    /\ turn = 1
    /\ active_pid = 1
    /\ last = Call("board", "done", TRUE, 0)
    /\ ends = 0
    /\ steps = 0
    /\ pc = "api"

NextPhase == \E pid \in PlayerIds : StartPhase(pid)

SpecPhase == InitPhase /\ [][NextPhase]_vars

-----------------------------------------------------------------------------
\* Properties.

\* The cards of player pid, as a multiset over deck, hand and discard.
Owned(pid) == [c \in CardIds |-> CountOf(deck[pid], c) + CountOf(hand[pid], c) + CountOf(discard[pid], c)]

\* C1: in every reachable state each player's deck, hand and discard together
\* hold exactly the 30 cards dealt at construction (2 of the 15-card base deck):
\* no card is duplicated or lost.
C1_CardsConserved ==
    \A pid \in PlayerIds :
        /\ Owned(pid) = [c \in CardIds |-> 2 * CountOf(base_deck, c)]
        /\ Len(deck[pid]) + Len(hand[pid]) + Len(discard[pid]) = 30

\* Some unit of player pid is on the board.
HasUnits(pid) == \E z \in ZoneId : \E i \in 1..Len(zones[z]) : zones[z][i].owner = pid

\* A player has deployed, then drawn the deck out and the reshuffled discard too.
C1_Witness ==
    \E pid \in PlayerIds : HasUnits(pid) /\ deck[pid] = <<>> /\ discard[pid] = <<>>

\* The capacities the zones are documented to have.
ZoneLimit(z) ==
    CASE z \in {"LEFT", "CENTER", "RIGHT"} -> 3
      [] z = "RESERVE" -> 4
      [] z \in {"HQ", "SUPPLY"} -> 2

\* C2: in every reachable state no zone holds more units than its capacity
\* (LEFT/CENTER/RIGHT 3, RESERVE 4, HQ 2, SUPPLY 2).
C2_ZoneWithinCapacity == \A z \in ZoneId : Len(zones[z]) <= ZoneLimit(z)

\* RESERVE, the largest zone, holds its 4 units and a deploy has just been
\* refused for lack of space.
C2_Witness ==
    /\ last.op = "deploy"
    /\ last.exit = "space"
    /\ Len(zones["RESERVE"]) = 4

\* The three failure cases of a deploy request, read off the state before it.
DeployFailCase(pid, i, z) ==
    \/ i < 0
    \/ i >= Len(hand[pid])
    \/ hand[pid][i + 1] \notin TroopIds
    \/ Len(zones[z]) >= ZoneLimit(z)

\* C3: a deploy with the hand index out of range, a card that is no Troop, or a
\* full target zone returns failure and changes nothing of the game state.
\* (Every step either is no deploy call, or is a refused call that changed
\* nothing, or is no deploy request of one of the three failure cases.)
C3_FailedDeployChangesNothing ==
    [][\/ last'.op # "deploy"
       \/ ~last'.ok /\ UNCHANGED game
       \/ \A pid \in PlayerIds, i \in HandIndexes, z \in ZoneId :
             DeployFailCase(pid, i, z) => ~Deploy(pid, i, z)]_vars

\* A deploy into a full zone has just failed.
C3_Witness ==
    /\ last.op = "deploy"
    /\ ~last.ok
    /\ last.exit = "space"

\* The success case of a deploy request.
DeploySuccessCase(pid, i, z) ==
    /\ i >= 0
    /\ i < Len(hand[pid])
    /\ hand[pid][i + 1] \in TroopIds
    /\ Len(zones[z]) < ZoneLimit(z)

\* C4: a deploy of an in-range Troop card into a zone with free space returns
\* success; it appends one unit (owner, zone, the card's cohesion and max ammo,
\* attacked flag false) to the target zone, removes exactly entry handIndex from
\* the hand, appends the card to the discard, and leaves the decks, the other
\* zones and the other player's piles alone.
C4_DeploySuccessEffect ==
    [][\/ last'.op # "deploy"
       \/ \A pid \in PlayerIds, i \in HandIndexes, z \in ZoneId :
          (DeploySuccessCase(pid, i, z) /\ Deploy(pid, i, z)) =>
              LET card == hand[pid][i + 1]
                  other == 3 - pid
              IN  /\ last'.ok
                  /\ zones'[z] = zones[z] \o
                        << [card |-> card, owner |-> pid, zone |-> z,
                            coh |-> stats[card].coh, ammo |-> stats[card].max_ammo,
                            attacked_this_turn |-> FALSE] >>
                  /\ \A y \in ZoneId \ {z} : zones'[y] = zones[y]
                  /\ Len(hand'[pid]) = Len(hand[pid]) - 1
                  /\ \A j \in 1..Len(hand'[pid]) :
                        hand'[pid][j] = IF j <= i THEN hand[pid][j] ELSE hand[pid][j + 1]
                  /\ discard'[pid] = discard[pid] \o <<card>>
                  /\ deck' = deck
                  /\ hand'[other] = hand[other]
                  /\ discard'[other] = discard[other]
                  /\ UNCHANGED <<cp, morale, turn, active_pid>>]_vars

\* A deploy has just succeeded into a zone that already held a unit, with a
\* unit that carries ammunition.
C4_Witness ==
    /\ last.op = "deploy"
    /\ last.ok
    /\ \E z \in ZoneId :
          /\ Len(zones[z]) >= 2
          /\ zones[z][Len(zones[z])].ammo > 0

Min(a, b) == IF a < b THEN a ELSE b

\* C5: a draw called with an empty deck and a non-empty discard D empties the
\* discard, and the deck left plus the cards added to the hand are D as a
\* multiset; called with deck and discard both empty it changes no pile.
C5_DrawFromEmptyDeck ==
    [][\/ last'.op # "draw"
       \/ \A pid \in PlayerIds, n \in DrawCounts :
            (deck[pid] = <<>> /\ Draw(pid, n)) =>
                IF discard[pid] # <<>>
                THEN /\ discard'[pid] = <<>>
                     /\ Len(hand'[pid]) >= Len(hand[pid])
                     /\ SubSeq(hand'[pid], 1, Len(hand[pid])) = hand[pid]
                     /\ \A c \in CardIds :
                           CountOf(deck'[pid], c) + CountOf(hand'[pid], c) - CountOf(hand[pid], c)
                               = CountOf(discard[pid], c)
                ELSE /\ hand'[pid] = hand[pid]
                     /\ deck'[pid] = deck[pid]
                     /\ discard'[pid] = discard[pid]]_vars

\* A player who only deployed and drew (no start phase) has had the discard
\* reshuffled by a draw.
C5_Witness ==
    /\ last.op = "draw"
    /\ \E pid \in PlayerIds : cp[pid] = 0 /\ HasUnits(pid) /\ discard[pid] = <<>>

\* C6: draw(player, n) appends exactly min(n, |deck| + |discard|) cards to the
\* end of the hand and keeps the cards already in hand in place; the first
\* min(n, |deck|) of them are the deck's cards from the top down; the discard
\* is reshuffled only if the deck is empty at one of the n attempts (n > |deck|),
\* and then the rest come out of the reshuffled discard; otherwise the deck
\* only loses the drawn cards and the discard is untouched.
C6_DrawCount ==
    [][\/ last'.op # "draw"
       \/ \A pid \in PlayerIds, n \in DrawCounts :
            Draw(pid, n) =>
                LET h == Len(hand[pid])
                    d == Len(deck[pid])
                    k == Min(n, d + Len(discard[pid]))
                    fromDeck == Min(n, d)
                IN  /\ Len(hand'[pid]) = h + k
                    /\ SubSeq(hand'[pid], 1, h) = hand[pid]
                    /\ \A j \in 1..fromDeck : hand'[pid][h + j] = deck[pid][d + 1 - j]
                    /\ n <= d => /\ discard'[pid] = discard[pid]
                                 /\ deck'[pid] = SubSeq(deck[pid], 1, d - n)
                    /\ n > d => /\ discard'[pid] = <<>>
                                /\ Len(deck'[pid]) = d + Len(discard[pid]) - k
                                /\ \A c \in CardIds :
                                      CountOf(deck'[pid], c) + CountOf(hand'[pid], c)
                                          = CountOf(deck[pid], c) + CountOf(hand[pid], c)
                                              + CountOf(discard[pid], c)
                    /\ hand'[3 - pid] = hand[3 - pid]
                    /\ deck'[3 - pid] = deck[3 - pid]
                    /\ discard'[3 - pid] = discard[3 - pid]]_vars

\* A draw has run the deck out, reshuffled a one-card discard and drawn it too:
\* the player holds all 30 cards, the redrawn Troop last.
C6_Witness ==
    /\ last.op = "draw"
    /\ \E pid \in PlayerIds :
          /\ Len(hand[pid]) = 30
          /\ HasUnits(pid)
          /\ hand[pid][30] \in TroopIds

C8_TurnParity ==
    /\ active_pid \in {1, 2}
    /\ active_pid = (IF ends % 2 = 0 THEN 1 ELSE 2)
    /\ turn = 1 + (ends \div 2)

\* Three turns have ended: player 2 is active in turn 2.
C8_Witness == ends = 3 /\ turn = 2 /\ active_pid = 2 /\ last.op = "end_turn"

\* C9 as claimed: with both morales <= 0 the win check reports player 1.
C9_BothDownPlayer1Wins ==
    (last.op = "game_over" /\ morale[1] <= 0 /\ morale[2] <= 0) => last.winner = 1

\* C9, amended: with both morales <= 0 the win check reports player 2 (player
\* 1's morale is checked first, and its being <= 0 makes player 2 the winner).
C9_BothDownPlayer2Wins ==
    (last.op = "game_over" /\ morale[1] <= 0 /\ morale[2] <= 0) => last.winner = 2

\* The win check has run with both morales <= 0.
C9_Witness == last.op = "game_over" /\ morale[1] <= 0 /\ morale[2] <= 0

\* C10: the win check changes no game state; with exactly one morale <= 0 it
\* returns the other player's id, and it returns no winner iff both are > 0.
C10_WinCheck ==
    [][(last'.op = "game_over" /\ steps' = steps + 1) =>
          /\ UNCHANGED game
          /\ (morale[1] <= 0 /\ morale[2] > 0) => last'.winner = 2
          /\ (morale[2] <= 0 /\ morale[1] > 0) => last'.winner = 1
          /\ last'.winner = 0 <=> (morale[1] > 0 /\ morale[2] > 0)]_vars

\* The win check has run with only player 2's morale at 0 and named player 1.
C10_Witness ==
    /\ last.op = "game_over"
    /\ morale[1] > 0
    /\ morale[2] = 0
    /\ last.winner = 1

\* C11: the win check comes before each turn: a start phase only runs right
\* after a win check that found no winner, so never in a state where a morale
\* is <= 0; a win check that finds a winner stops the loop of main, and once
\* stopped nothing changes any more.
C11_WinCheckBeforeTurn ==
    [][/\ last'.op = "start_phase" =>
            /\ last.op = "game_over" /\ last.winner = 0
            /\ morale[1] > 0 /\ morale[2] > 0
       /\ (pc = "check" /\ (morale[1] <= 0 \/ morale[2] <= 0)) =>
            /\ pc' = "over"
            /\ last'.winner # 0
            /\ UNCHANGED game
       /\ pc = "over" => UNCHANGED vars]_vars

\* The loop of main has stopped on player 1's win at its first check: no start
\* phase has run, nobody holds more than the starting hand.
C11_Witness ==
    /\ pc = "over"
    /\ last.winner = 1
    /\ morale[2] <= 0
    /\ cp = <<0, 0>>
    /\ Len(hand[1]) = StartingHand

\* C12 as claimed: every start phase of the loop leaves the active player's
\* hand exactly one card longer.
C12_StartDrawsExactlyOne ==
    [][last'.op = "start_phase" =>
          Len(hand'[active_pid]) = Len(hand[active_pid]) + 1]_vars

\* C12, amended: every start phase of the loop leaves the active player's hand
\* exactly one card longer if the player's deck or discard holds a card, and
\* as it was if both are empty; the other player's hand is as it was.
C12_StartDrawsOneIfAny ==
    [][last'.op = "start_phase" =>
          /\ Len(hand'[active_pid]) =
                 Len(hand[active_pid])
                   + (IF deck[active_pid] = <<>> /\ discard[active_pid] = <<>> THEN 0 ELSE 1)
          /\ hand'[3 - active_pid] = hand[3 - active_pid]]_vars

\* Player 1 has deployed one Troop and, with the deck drawn out, has drawn it
\* again from the reshuffled discard (turn 26) and then nothing in the next
\* start phase (turn 27).
C12_Witness ==
    /\ last.op = "start_phase"
    /\ active_pid = 1
    /\ turn = 27
    /\ HasUnits(1)
    /\ Len(hand[1]) = 30
    /\ deck[1] = <<>>
    /\ discard[1] = <<>>

\* C13: right after construction each player has 5 cards in hand, 25 in the
\* deck and an empty discard, morale 25 and cp 0; the turn counter is 1, the
\* active player is 1 and all six zones are empty.
C13_NewGame ==
    last.op = "new" =>
        /\ \A pid \in PlayerIds :
              /\ Len(hand[pid]) = 5
              /\ Len(deck[pid]) = 25
              /\ discard[pid] = <<>>
              /\ morale[pid] = 25
              /\ cp[pid] = 0
        /\ turn = 1
        /\ active_pid = 1
        /\ \A z \in {"LEFT", "CENTER", "RIGHT", "RESERVE", "HQ", "SUPPLY"} : zones[z] = <<>>

\* A Game just constructed, the two decks shuffled into different orders.
C13_Witness ==
    /\ last.op = "new"
    /\ steps = 0
    /\ hand[1] # hand[2]

\* C14: the start phase of player p clears the attacked flag of every unit p
\* owns, in every zone, and leaves the other player's units as they are; every
\* zone keeps its units and their order; the other player's deck, hand,
\* discard, cp and morale, the turn counter and the active player id are
\* unchanged.
C14_StartPhaseFrame ==
    [][\/ last'.op # "start_phase"
       \/ \A pid \in PlayerIds :
            StartPhase(pid) =>
                /\ \A z \in {"LEFT", "CENTER", "RIGHT", "RESERVE", "HQ", "SUPPLY"} :
                      /\ Len(zones'[z]) = Len(zones[z])
                      /\ \A i \in 1..Len(zones[z]) :
                            LET u == zones[z][i]
                                v == zones'[z][i]
                            IN  /\ v.card = u.card
                                /\ v.owner = u.owner
                                /\ v.zone = u.zone
                                /\ v.coh = u.coh
                                /\ v.ammo = u.ammo
                                /\ v.attacked_this_turn =
                                      (IF u.owner = pid THEN FALSE ELSE u.attacked_this_turn)
                /\ deck'[3 - pid] = deck[3 - pid]
                /\ hand'[3 - pid] = hand[3 - pid]
                /\ discard'[3 - pid] = discard[3 - pid]
                /\ cp'[3 - pid] = cp[3 - pid]
                /\ morale'[3 - pid] = morale[3 - pid]
                /\ turn' = turn
                /\ active_pid' = active_pid]_vars

\* Player 1 alone has had a start phase, with units of both players in
\* RESERVE: player 1's are cleared, one of player 2's is still flagged.
C14_Witness ==
    /\ last.op = "start_phase"
    /\ cp = <<2, 0>>
    /\ \E i, j \in 1..Len(zones["RESERVE"]) :
          /\ zones["RESERVE"][i].owner = 1
          /\ ~zones["RESERVE"][i].attacked_this_turn
          /\ zones["RESERVE"][j].owner = 2
          /\ zones["RESERVE"][j].attacked_this_turn

\* C15: units enter a zone only by a successful deploy and are never removed,
\* moved or reordered: in every step each zone's unit sequence is either as it
\* was or, by a successful deploy, as it was with one unit added at its end;
\* so no zone's unit count ever goes down.
C15_UnitsOnlyAppended ==
    [][\A z \in ZoneId :
          /\ Len(zones'[z]) >= Len(zones[z])
          /\ \/ zones'[z] = zones[z]
             \/ /\ last'.op = "deploy"
                /\ last'.ok
                /\ Len(zones'[z]) = Len(zones[z]) + 1
                /\ SubSeq(zones'[z], 1, Len(zones[z])) = zones[z]]_vars

\* A start phase has run over a zone that holds units of both players.
C15_Witness ==
    /\ last.op = "start_phase"
    /\ \E z \in ZoneId :
          /\ Len(zones[z]) = 2
          /\ zones[z][1].owner # zones[z][2].owner

C17_OnlyHqOrReserve ==
    [][/\ (last'.op = "input" /\ last'.exit = "zone") => UNCHANGED game
       /\ \A z \in {"LEFT", "CENTER", "RIGHT", "SUPPLY"} :
             zones[z] = <<>> /\ zones'[z] = <<>>
       /\ Len(zones'["HQ"]) + Len(zones'["RESERVE"]) <= 6
       /\ NumUnits <= 6]_vars

\* HQ and RESERVE are full, 6 units in all, and a further deploy typed at the
\* prompt has been refused by the engine for lack of space.
C17_Witness ==
    /\ pc = "input"
    /\ last.op = "deploy"
    /\ last.exit = "space"
    /\ Len(zones["HQ"]) = 2
    /\ Len(zones["RESERVE"]) = 4

C19_DiscardOnlyTroops ==
    [][\A pid \in PlayerIds :
          /\ \A i \in 1..Len(discard'[pid]) :
                discard'[pid][i] \in
                    {"troop_marines", "troop_scouts", "troop_cavalry", "troop_heavy", "troop_elite"}
          /\ Len(discard'[pid]) > Len(discard[pid]) =>
                /\ last'.op = "deploy"
                /\ last'.ok
                /\ Len(discard'[pid]) = Len(discard[pid]) + 1
          /\ \A c \in {"strat_suppression", "strat_march", "strat_dig_in", "amb_killzone", "amb_booby"} :
                /\ CountOf(hand'[pid], c) >= CountOf(hand[pid], c)
                /\ CountOf(deck'[pid], c) + CountOf(hand'[pid], c) = 2]_vars

\* A player has drawn the whole deck, so holds every Strategem and Ambush
\* card, and has then deployed a Troop into the discard.
C19_Witness ==
    \E pid \in PlayerIds :
        /\ deck[pid] = <<>>
        /\ Len(discard[pid]) = 1
        /\ Len(hand[pid]) = 29

\* C20: every unit in the unit sequence of zone Z has zone Z, an owner in
\* {1, 2}, the cohesion of its card's stats (which is > 0: the unit is alive),
\* the max ammo of its card's stats as ammunition, and the attacked flag false.
C20_UnitFields ==
    \A z \in ZoneId : \A i \in 1..Len(zones[z]) :
        LET u == zones[z][i] IN
            /\ u.zone = z
            /\ u.owner \in {1, 2}
            /\ u.card \in TroopIds
            /\ u.coh = stats[u.card].coh
            /\ u.coh > 0
            /\ u.ammo = stats[u.card].max_ammo
            /\ u.attacked_this_turn = FALSE

\* SUPPLY holds two units and LEFT one, one of them with ammunition.
C20_Witness ==
    /\ Len(zones["SUPPLY"]) = 2
    /\ Len(zones["LEFT"]) = 1
    /\ \E z \in {"SUPPLY", "LEFT"} : \E i \in 1..Len(zones[z]) : zones[z][i].ammo = 2

====
